---- MODULE Spec2Model ----
(***************************************************************************)
(* A model of the repomirror command line tool: the configuration store    *)
(* (loadConfig / saveConfig over repomirror.yaml), the remote registry     *)
(* (remote add | list | remove), the preflight checks of init, the sync     *)
(* executor (sync / syncForever with their signal handlers), push to the   *)
(* registered remotes, pull of the source repository, setupGithubPrSync,   *)
(* init with the scripts it writes, the loop of ralph.sh and a save of the *)
(* document with a reader at work.                                         *)
(***************************************************************************)
EXTENDS Integers, Sequences, FiniteSets, TLC

(***************************************************************************)
(* Bounds of the model.                                                    *)
(***************************************************************************)
\* largest number a document holds in times_to_loop
MaxNum == 2
\* signals delivered to the parent while one sync command runs
MaxSignals == 2
\* runs of the step of ralph.sh that are counted; later runs leave the count
MaxRuns == 2

(***************************************************************************)
(* JavaScript values.  A scalar is its type and its text; a list carries   *)
(* its items.  "undef" is a key that is not set.                           *)
(***************************************************************************)
Scalar(t, s) == [t |-> t, s |-> s, items |-> <<>>]
Str(s) == Scalar("str", s)
Bool(b) == Scalar("bool", IF b THEN "true" ELSE "false")
Num(n) == Scalar("num", ToString(n))
Null == Scalar("null", "")
Undef == Scalar("undef", "")
List(items) == [t |-> "seq", s |-> "", items |-> items]

\* JavaScript truthiness: undefined, null, "", false and 0 are falsy
Truthy(v) ==
  CASE v.t = "undef" -> FALSE
    [] v.t = "null" -> FALSE
    [] v.t = "str" -> v.s # ""
    [] v.t = "bool" -> v.s = "true"
    [] v.t = "num" -> v.s # "0"
    [] OTHER -> TRUE

\* the keys of RepomirrorConfig, and one key the schema does not know
Keys ==
  {"source_repo", "target_repo", "transformation_instructions", "config_version",
   "default_remote", "auto_sync", "remotes", "target_remote", "times_to_loop",
   "x_unknown"}

RemoteConfig(name, url, branch) == [name |-> name, url |-> url, branch |-> branch]

(***************************************************************************)
(* yaml.stringify and yaml.parse.  The text of a document is the set of    *)
(* its "key: node" entries; a node is a plain scalar, a quoted scalar or a *)
(* sequence of remote entries.  A string that would read back as something *)
(* else when written plain is written quoted.                              *)
(***************************************************************************)
Node(style, text) == [style |-> style, text |-> text, items |-> <<>>]

\* "options?.timesToLoop || config.times_to_loop || 3" in setupGithubPrSync
DefaultTimesToLoop == 3

\* the numbers of the model: those of the inputs and the default above
MaxNumeral == IF MaxNum > DefaultTimesToLoop THEN MaxNum ELSE DefaultTimesToLoop

IsNumeric(s) == \E n \in 0..MaxNumeral : ToString(n) = s

PlainIsNotString(s) == s \in {"", "null", "~", "true", "false"} \/ IsNumeric(s)

\* a stringify that never quotes
StringifyScalarPlain(v) == Node("plain", v.s)

StringifyScalar(v) ==
  CASE v.t = "str" -> IF PlainIsNotString(v.s) THEN Node("quoted", v.s) ELSE Node("plain", v.s)
    [] v.t = "null" -> Node("plain", "null")
    [] OTHER -> Node("plain", v.s)

ParseScalar(n) ==
  IF n.style = "quoted" THEN Str(n.text)
  ELSE IF n.text \in {"true", "false"} THEN Scalar("bool", n.text)
  ELSE IF IsNumeric(n.text) THEN Scalar("num", n.text)
  ELSE IF n.text \in {"", "null", "~"} THEN Null
  ELSE Str(n.text)

StringifyRemote(r) ==
  [name |-> StringifyScalar(r.name), url |-> StringifyScalar(r.url),
   branch |-> StringifyScalar(r.branch)]

ParseRemote(e) ==
  [name |-> ParseScalar(e.name), url |-> ParseScalar(e.url), branch |-> ParseScalar(e.branch)]

StringifyValue(v) ==
  IF v.t = "seq"
  THEN [style |-> "seq", text |-> "", items |-> [i \in 1..Len(v.items) |-> StringifyRemote(v.items[i])]]
  ELSE StringifyScalar(v)

ParseValue(n) ==
  IF n.style = "seq"
  THEN List([i \in 1..Len(n.items) |-> ParseRemote(n.items[i])])
  ELSE ParseScalar(n)

\* file contents: no file, text that does not parse, or a YAML map
NoFile == [kind |-> "absent", entries |-> {}]
Garbage == [kind |-> "garbage", entries |-> {}]

\* keys whose value is undefined are not written
yamlStringify(config) ==
  [kind |-> "yaml",
   entries |-> {<<k, StringifyValue(config[k])>> : k \in {x \in Keys : config[x].t # "undef"}}]

yamlParse(content) ==
  [k \in Keys |->
     IF \E e \in content.entries : e[1] = k
     THEN ParseValue((CHOOSE e \in content.entries : e[1] = k)[2])
     ELSE Undef]

(***************************************************************************)
(* The file system: the directories that exist and the content of          *)
(* repomirror.yaml in each of them.                                        *)
(***************************************************************************)
Cwd == "/w"
SubDir == "/w/src"
Dirs == {Cwd, SubDir}

\* path.resolve(process.cwd(), p) for the paths of the model
resolve(p) ==
  CASE p \in {".", "./", ""} -> Cwd
    [] p \in {"src", "./src", SubDir} -> SubDir
    [] OTHER -> Cwd

\* the base directory of loadConfig and saveConfig: no argument and the
\* literal "./" both mean the working directory
baseDir(sourceRepo) ==
  IF sourceRepo # "" /\ sourceRepo # "./" THEN resolve(sourceRepo) ELSE Cwd

NullConfig == [k \in Keys |-> Undef]

\* a loadConfig that answers an empty document instead of null
loadConfigDefault(fs, ds, sourceRepo) ==
  LET dir == baseDir(sourceRepo) IN
  IF dir \in ds /\ fs[dir].kind = "yaml"
  THEN [ok |-> TRUE, config |-> yamlParse(fs[dir])]
  ELSE [ok |-> TRUE, config |-> NullConfig]

\* loadConfig: null when the file cannot be read or parsed
loadConfig(fs, ds, sourceRepo) ==
  LET dir == baseDir(sourceRepo) IN
  IF dir \in ds /\ fs[dir].kind = "yaml"
  THEN [ok |-> TRUE, config |-> yamlParse(fs[dir])]
  ELSE [ok |-> FALSE, config |-> NullConfig]

\* saveConfig: mkdir -p of the base directory, then a write of the whole document
saveConfigFiles(fs, config, sourceRepo) ==
  [fs EXCEPT ![baseDir(sourceRepo)] = yamlStringify(config)]

saveConfigDirs(ds, sourceRepo) == ds \cup {baseDir(sourceRepo)}

(***************************************************************************)
(* State.                                                                  *)
(***************************************************************************)
VARIABLES
  files,      \* directory -> content of its repomirror.yaml
  dirs,       \* the directories that exist
  pc,         \* position of the running command; "idle" when none runs
  cmd,        \* the command that runs, or ran last
  exitCode,   \* exit status of the command that ran last; -1 while one runs
  pre,        \* files as they were when the command started
  writes,     \* writes of repomirror.yaml made by the command
  out,        \* what the command reported last
  repeated,   \* cmd is the command that ran before it, which exited with 0
  doc,        \* the document handed to saveConfig last
  savedDir,   \* the base directory of that save; "" before the first
  loaded,     \* what loadConfig returned last
  env,        \* what the preflight checks find: target directory, git, claude
  started,    \* the preflight checks started, in order
  scripts,    \* the scripts that exist in .repomirror of the working directory
  preScripts, \* scripts as they were when the command started
  child,      \* the sync subprocess: "none", "running" or "exited"
  childEnd,   \* how the subprocess ended, and who sent the signal that ended it
  pending,    \* signals sent to the subprocess that it has not acted on
  handlers,   \* signal -> number of listeners the command has registered
  received,   \* signals the parent received while its subprocess ran
  killed,     \* the signals the handler passed to subprocess.kill, in order
  spawned,    \* subprocesses spawned by the command
  pushLog,    \* the git pushes of the command: remote, url, branch, result
  pushOpts,   \* the options of the push that runs, or ran last
  pushCaller, \* who called push: "cli", or "sync" for the chained push
  pushIdx,    \* all-remotes push: index of the remote that is up next
  reports,    \* what push reported per remote: remote, branch, result
  pushCalls,  \* calls of push made by the command
  prevPush,   \* options, pushes and reports of the push command before this one
  pullOpts,   \* the options of the pull that runs, or ran last
  gitLog,     \* the git commands pull ran in the source repository
  chained,    \* the sync that pull went on to: "", "sync" or "syncForever"
  workflow,   \* .github/workflows/repomirror.yml exists in the working directory
  subScripts, \* the scripts that exist in .repomirror of the other directory
  loop,       \* ralph.sh: where its loop is, how its last step ended, its delay
  inited      \* source_repo of the last init that went through; "" before it

storeVars == <<doc, savedDir, loaded>>
preflightVars == <<env, started>>
syncVars ==
  <<scripts, preScripts, child, childEnd, pending, handlers, received, killed, spawned, pushLog>>
pushVars == <<pushOpts, pushCaller, pushIdx, reports, pushCalls, prevPush>>
pullVars == <<pullOpts, gitLog, chained>>
siteVars == <<workflow, subScripts, loop, inited>>
vars ==
  <<files, dirs, pc, cmd, exitCode, pre, writes, out, repeated, storeVars, preflightVars,
    syncVars, pushVars, pullVars, siteVars>>

Command(op, action, args) == [op |-> op, action |-> action, args |-> args]
NoCommand == Command("none", "", <<>>)

(***************************************************************************)
(* The remote registry: remote(action, ...args).                           *)
(***************************************************************************)
\* what a finished command leaves behind
Outcome(fs, ds, code, nwrites, msg) ==
  [files |-> fs, dirs |-> ds, exitCode |-> code, writes |-> nwrites, out |-> msg]

\* args[i], or "" when the argument was not given (both are falsy)
Arg(args, i) == IF i <= Len(args) THEN args[i] ELSE ""

\* a findIndex that starts its search at the second entry
findIndexSkipFirst(remotes, name) ==
  IF \E i \in 2..Len(remotes) : remotes[i].name = Str(name)
  THEN CHOOSE i \in 2..Len(remotes) :
         /\ remotes[i].name = Str(name)
         /\ \A j \in 2..(i - 1) : remotes[j].name # Str(name)
  ELSE 0

\* Array.prototype.findIndex(r => r.name === name), 1-based; 0 is "not found"
findIndex(remotes, name) ==
  IF \E i \in 1..Len(remotes) : remotes[i].name = Str(name)
  THEN CHOOSE i \in 1..Len(remotes) :
         /\ remotes[i].name = Str(name)
         /\ \A j \in 1..(i - 1) : remotes[j].name # Str(name)
  ELSE 0

\* config.remotes after "if (!config.remotes) config.remotes = []"
remotesOrEmpty(config) == IF Truthy(config.remotes) THEN config.remotes.items ELSE <<>>

\* an add that appends without looking for the name
addRemoteAlwaysPush(remotes, name, url, branch) ==
  Append(remotes, RemoteConfig(Str(name), Str(url), Str(branch)))

\* an add that deletes the old entry and appends the new one
addRemoteMoveToEnd(remotes, name, url, branch) ==
  LET existingIndex == findIndex(remotes, name)
      entry == RemoteConfig(Str(name), Str(url), Str(branch))
      rest == SubSeq(remotes, 1, existingIndex - 1)
                \o SubSeq(remotes, existingIndex + 1, Len(remotes))
  IN IF existingIndex >= 1 THEN Append(rest, entry) ELSE Append(remotes, entry)

\* the add case, past its argument check: replace in place or append
addRemote(remotes, name, url, branch) ==
  LET existingIndex == findIndex(remotes, name)
      entry == RemoteConfig(Str(name), Str(url), Str(branch))
  IN IF existingIndex >= 1
     THEN [remotes EXCEPT ![existingIndex] = entry]
     ELSE Append(remotes, entry)

\* an argument check that forgets the url
addUsageErrorNameOnly(name, url) == name = ""

\* "if (!name || !url)": the usage error of add
addUsageError(name, url) == name = "" \/ url = ""

remoteAdd(fs, ds, config, args) ==
  LET name == Arg(args, 1)
      url == Arg(args, 2)
      branch == IF Len(args) >= 3 THEN args[3] ELSE "main"
      remotes == remotesOrEmpty(config)
      config2 == [config EXCEPT !["remotes"] = List(addRemote(remotes, name, url, branch))]
  IN IF addUsageError(name, url)
     THEN Outcome(fs, ds, 1, 0, "usage")
     ELSE Outcome(saveConfigFiles(fs, config2, ""), saveConfigDirs(ds, ""), 0, 1,
                  IF findIndex(remotes, name) >= 1 THEN "updated" ELSE "added")

remoteList(fs, ds, config) ==
  IF ~Truthy(config.remotes) \/ Len(config.remotes.items) = 0
  THEN Outcome(fs, ds, 0, 0, "no-remotes")
  ELSE Outcome(fs, ds, 0, 0, "listed")

\* Array.prototype.splice(index, 1); index 0 stands for JavaScript's -1, which
\* splice counts from the end
splice(remotes, index) ==
  LET at == IF index = 0 THEN Len(remotes) ELSE index IN
  IF Len(remotes) = 0 THEN <<>>
  ELSE SubSeq(remotes, 1, at - 1) \o SubSeq(remotes, at + 1, Len(remotes))

\* a remove that deletes and saves whatever the search found
removeFoundAlways(remotes, name) == TRUE

\* whether the remove case found the name and so deletes and saves
removeFound(remotes, name) == findIndex(remotes, name) >= 1

remoteRemove(fs, ds, config, args) ==
  LET name == Arg(args, 1)
      remotes == config.remotes.items
      config2 == [config EXCEPT !["remotes"] = List(splice(remotes, findIndex(remotes, name)))]
  IN IF name = "" THEN Outcome(fs, ds, 1, 0, "usage")
     ELSE IF ~Truthy(config.remotes) THEN Outcome(fs, ds, 0, 0, "not-found")
     ELSE IF removeFound(remotes, name)
     THEN Outcome(saveConfigFiles(fs, config2, ""), saveConfigDirs(ds, ""), 0, 1, "removed")
     ELSE Outcome(fs, ds, 0, 0, "not-found")

remoteOutcome(fs, ds, action, args) ==
  LET ld == loadConfig(fs, ds, "") IN
  IF ~ld.ok THEN Outcome(fs, ds, 1, 0, "config-not-found")
  ELSE CASE action = "add" -> remoteAdd(fs, ds, ld.config, args)
         [] action = "list" -> remoteList(fs, ds, ld.config)
         [] action = "remove" -> remoteRemove(fs, ds, ld.config, args)
         [] OTHER -> Outcome(fs, ds, 1, 0, "unknown-action")

\* one run of "repomirror remote <action> <args>", start to exit
remote(action, args) ==
  LET o == remoteOutcome(files, dirs, action, args) IN
  /\ pc = "idle"
  /\ files' = o.files
  /\ dirs' = o.dirs
  /\ exitCode' = o.exitCode
  /\ writes' = o.writes
  /\ out' = o.out
  /\ pre' = files
  /\ cmd' = Command("remote", action, args)
  /\ repeated' = (cmd = Command("remote", action, args) /\ exitCode = 0)
  /\ UNCHANGED <<siteVars, storeVars, preflightVars, syncVars, pushVars, pullVars>>
  /\ pc' = "idle"

(***************************************************************************)
(* The inputs of the registry commands.                                    *)
(***************************************************************************)
Names == {"origin", "staging"}
Urls == {"https://x/repo.git", "https://x/repo2.git"}
Branches == {"main", "dev"}

AddArgs ==
  {<<>>}
  \cup {<<n>> : n \in Names}
  \cup {<<n, u>> : n \in Names \cup {""}, u \in Urls \cup {""}}
  \cup {<<n, u, b>> : n \in Names, u \in Urls, b \in Branches}

RemoveArgs == {<<>>} \cup {<<n>> : n \in Names \cup {""}}

\* the document init writes
MinimalConfig ==
  [k \in Keys |->
     CASE k = "source_repo" -> Str("./")
       [] k = "target_repo" -> Str("../w-transformed")
       [] k = "transformation_instructions" -> Str("translate this python repo to typescript")
       [] k = "config_version" -> Str("0.1.0")
       [] OTHER -> Undef]

\* documents a user has edited: optional and unknown keys set
EditedConfig ==
  [MinimalConfig EXCEPT
     !["default_remote"] = Str("staging"),
     !["auto_sync"] = Bool(TRUE),
     !["times_to_loop"] = Num(2),
     !["x_unknown"] = Str("true"),
     !["remotes"] = List(<<RemoteConfig(Str("staging"), Str("https://x/repo2.git"), Str("dev"))>>)]

EmptyRegistryConfig == [MinimalConfig EXCEPT !["remotes"] = List(<<>>)]

InitialContents ==
  {NoFile, Garbage, yamlStringify(MinimalConfig), yamlStringify(EditedConfig),
   yamlStringify(EmptyRegistryConfig)}

Signals == {"SIGINT", "SIGTERM"}
ScriptNames == {"sync.sh", "ralph.sh"}

NoEnv == [targetExists |-> FALSE, isRepo |-> FALSE, gitRemotes |-> 0, skipClaude |-> FALSE,
          claudeOut |-> 0]
NoChildEnd == [kind |-> "none", signal |-> "", by |-> ""]
NoPushOpts == [all |-> FALSE, remote |-> "", branch |-> "", dryRun |-> FALSE]
NoPrevPush == [ran |-> FALSE, opts |-> NoPushOpts, pushed |-> <<>>, reported |-> <<>>]
NoLoop == [phase |-> "", last |-> "", delay |-> 0, runs |-> 0]
NoPullOpts == [check |-> FALSE, sourceOnly |-> FALSE, syncAfter |-> FALSE]

\* no command has run yet: a working directory with or without a document
\* (the scripts are chosen by the specification, before this)
InitWith(contents) ==
  /\ files \in {[d \in Dirs |-> IF d = Cwd THEN c ELSE NoFile] : c \in contents}
  /\ dirs = {Cwd}
  /\ pc = "idle"
  /\ cmd = NoCommand
  /\ exitCode = -1
  /\ pre = files
  /\ writes = 0
  /\ out = ""
  /\ repeated = FALSE
  /\ savedDir = ""
  /\ loaded = [ok |-> FALSE, config |-> NullConfig]
  /\ env = NoEnv
  /\ started = <<>>
  /\ preScripts = scripts
  /\ child = "none"
  /\ childEnd = NoChildEnd
  /\ pending = <<>>
  /\ handlers = [s \in Signals |-> 0]
  /\ received = <<>>
  /\ killed = <<>>
  /\ spawned = 0
  /\ pushLog = <<>>
  /\ pushOpts = NoPushOpts
  /\ pushCaller = ""
  /\ pushIdx = 0
  /\ reports = <<>>
  /\ pushCalls = 0
  /\ prevPush = NoPrevPush
  /\ pullOpts = NoPullOpts
  /\ gitLog = <<>>
  /\ chained = ""
  /\ workflow = FALSE
  /\ subScripts = {}
  /\ loop = NoLoop
  /\ inited = ""

InitCommon == InitWith(InitialContents)

Init ==
  /\ doc = NullConfig
  /\ scripts = {}
  /\ InitCommon

RemoteAddCmd == \E args \in AddArgs : remote("add", args)
RemoteListCmd == remote("list", <<>>)
RemoteRemoveCmd == \E args \in RemoveArgs : remote("remove", args)
RemoteUnknownCmd == remote("prune", <<>>)

Next == RemoteAddCmd \/ RemoteListCmd \/ RemoteRemoveCmd \/ RemoteUnknownCmd

Spec == Init /\ [][Next]_vars

(***************************************************************************)
(* setupGithubPrSync: writes the workflow file and saves two settings to   *)
(* the document.                                                           *)
(***************************************************************************)
\* timesToLoop 0 stands for the option that is not given
SetupOptions == [targetRepo : {"", "acme/mirror"}, timesToLoop : {0, MaxNum}, overwrite : BOOLEAN]

\* "options?.targetRepo || config.target_remote || <answer to the prompt>"
setupTargetRepo(opts, config, answer) ==
  IF opts.targetRepo # "" THEN Str(opts.targetRepo)
  ELSE IF Truthy(config["target_remote"]) THEN config["target_remote"]
  ELSE Str(answer)

\* "options?.timesToLoop || config.times_to_loop || 3"
setupTimesToLoop(opts, config) ==
  IF opts.timesToLoop # 0 THEN Num(opts.timesToLoop)
  ELSE IF Truthy(config["times_to_loop"]) THEN config["times_to_loop"]
  ELSE Num(DefaultTimesToLoop)

\* a save of the fields the schema knows only
setupConfigKnownOnly(config, targetRepo, timesToLoop) ==
  [config EXCEPT !["target_remote"] = targetRepo, !["times_to_loop"] = timesToLoop,
                 !["x_unknown"] = Undef]

\* "config.target_remote = targetRepo; config.times_to_loop = timesToLoop"
setupConfig(config, targetRepo, timesToLoop) ==
  [config EXCEPT !["target_remote"] = targetRepo, !["times_to_loop"] = timesToLoop]

\* the whole command: without a document exit(1); with a workflow file in
\* place, no overwrite option and "no" to the prompt it returns; else it writes
\* the workflow file and saves the document with the two settings
setupGithubPrSync(opts, confirm, answer) ==
  LET ld == loadConfig(files, dirs, "")
      config2 == setupConfig(ld.config, setupTargetRepo(opts, ld.config, answer),
                             setupTimesToLoop(opts, ld.config))
  IN /\ pc = "idle"
     /\ pc' = "idle"
     /\ cmd' = Command("setup-github-pr-sync", "", <<>>)
     /\ pre' = files
     /\ repeated' = FALSE
     /\ IF ~ld.ok
        THEN /\ exitCode' = 1 /\ out' = "no-config" /\ writes' = 0
             /\ UNCHANGED <<files, workflow>>
        ELSE IF ~opts.overwrite /\ workflow /\ ~confirm
        THEN /\ exitCode' = 0 /\ out' = "aborted" /\ writes' = 0
             /\ UNCHANGED <<files, workflow>>
        ELSE /\ exitCode' = 0 /\ out' = "workflow-created" /\ writes' = 1
             /\ workflow' = TRUE
             /\ files' = saveConfigFiles(files, config2, "")
     /\ UNCHANGED <<dirs, subScripts, loop, inited, storeVars, preflightVars, syncVars, pushVars, pullVars>>

SetupGithubPrSync ==
  \E opts \in SetupOptions, confirm \in BOOLEAN, answer \in {"acme/target"} :
    setupGithubPrSync(opts, confirm, answer)

\* the commands that read the document, change some of its fields and save it
RewriteAddArgs ==
  {<<n, "https://x/repo.git">> : n \in Names} \cup {<<"staging", "https://x/repo2.git", "dev">>}

RewriteAdd == \E args \in RewriteAddArgs : remote("add", args)
RewriteRemove == \E n \in Names : remote("remove", <<n>>)

RewriteNext == RewriteAdd \/ RewriteRemove \/ SetupGithubPrSync

SpecRewrite == Init /\ [][RewriteNext]_vars

(***************************************************************************)
(* The configuration store on its own: saveConfig and loadConfig applied   *)
(* to one document, chosen at the start, and to every base directory.      *)
(***************************************************************************)
SourceRepoArgs == {"", "./", ".", "src"}

ambiguousRemote == RemoteConfig(Str("true"), Str("https://x/repo.git"), Str("1"))
plainRemote == RemoteConfig(Str("origin"), Str("https://x/repo2.git"), Str("main"))

ValidConfigs ==
  {[MinimalConfig EXCEPT
      !["default_remote"] = dr, !["auto_sync"] = as, !["remotes"] = rs,
      !["target_remote"] = IF n = -1 THEN Undef ELSE Str("../w-transformed"),
      !["times_to_loop"] = IF n = -1 THEN Undef ELSE Num(n)] :
     dr \in {Undef, Str("origin"), Str("1"), Str("null")},
     as \in {Undef, Bool(TRUE), Bool(FALSE)},
     rs \in {Undef, List(<<>>), List(<<ambiguousRemote, plainRemote>>)},
     n \in {-1, 0, MaxNum}}

StoreInit ==
  /\ doc \in ValidConfigs
  /\ scripts = {}
  /\ InitCommon

\* saveConfig(doc, sourceRepo)
saveConfig(sourceRepo) ==
  /\ pc = "idle"
  /\ files' = saveConfigFiles(files, doc, sourceRepo)
  /\ dirs' = saveConfigDirs(dirs, sourceRepo)
  /\ savedDir' = baseDir(sourceRepo)
  /\ cmd' = Command("saveConfig", sourceRepo, <<>>)
  /\ pre' = files
  /\ writes' = 1
  /\ UNCHANGED <<siteVars, pc, exitCode, out, repeated, doc, loaded, preflightVars, syncVars, pushVars,
                 pullVars>>

\* loadConfig(sourceRepo)
loadConfigStep(sourceRepo) ==
  /\ pc = "idle"
  /\ loaded' = loadConfig(files, dirs, sourceRepo)
  /\ cmd' = Command("loadConfig", sourceRepo, <<>>)
  /\ pre' = files
  /\ writes' = 0
  /\ UNCHANGED <<siteVars, files, dirs, pc, exitCode, out, repeated, doc, savedDir, preflightVars,
                 syncVars, pushVars, pullVars>>

SaveStep == \E sourceRepo \in SourceRepoArgs : saveConfig(sourceRepo)
LoadStep == \E sourceRepo \in SourceRepoArgs : loadConfigStep(sourceRepo)

StoreNext == SaveStep \/ LoadStep

SpecStore == StoreInit /\ [][StoreNext]_vars

(***************************************************************************)
(* performPreflightChecks(targetRepo): four checks, each ending the        *)
(* process with status 1 when it fails.                                    *)
(***************************************************************************)
\* shortest claude answer that check 4 accepts
MinResponseLength == 10

\* env.gitRemotes: lines of "git remote -v", -1 when the command fails
\* env.claudeOut: length of the trimmed claude answer, -1 when the command
\* fails or runs into its timeout
Envs ==
  [targetExists : BOOLEAN, isRepo : BOOLEAN, gitRemotes : {-1, 0, 2},
   skipClaude : BOOLEAN,
   claudeOut : {-1, 0, MinResponseLength - 1, MinResponseLength}]

\* check 1: fs.access(targetRepo)
check1Passes(e) == e.targetExists

\* check 2: git rev-parse --git-dir in targetRepo; needs the directory
check2Passes(e) == e.targetExists /\ e.isRepo

\* a check 3 that accepts an empty list of remotes
check3PassesEmpty(e) == e.gitRemotes >= 0

\* check 3: git remote -v succeeds and prints something
check3Passes(e) == e.gitRemotes >= 1

\* check 4: claude answers with at least MinResponseLength characters
check4Passes(e) == e.claudeOut >= MinResponseLength

preflightFrame ==
  UNCHANGED <<siteVars, files, dirs, pre, writes, repeated, storeVars, syncVars, pushVars, pullVars>>

\* init reaches performPreflightChecks
preflightStart(e) ==
  /\ pc = "idle"
  /\ env' = e
  /\ started' = <<>>
  /\ cmd' = Command("preflight", "", <<>>)
  /\ exitCode' = -1
  /\ out' = ""
  /\ pc' = "check1"
  /\ preflightFrame

\* one check: it passes and the next one is up, or it fails and the process exits
preflightCheck(n, passes, next) ==
  /\ pc = n
  /\ started' = Append(started, n)
  /\ IF passes
     THEN /\ pc' = next
          /\ out' = IF next = "idle" THEN "preflight-passed" ELSE out
          /\ exitCode' = IF next = "idle" THEN 0 ELSE exitCode
     ELSE /\ pc' = "idle"
          /\ out' = "preflight-failed"
          /\ exitCode' = 1
  /\ UNCHANGED <<env, cmd>>
  /\ preflightFrame

check1 == preflightCheck("check1", check1Passes(env), "check2")
check2 == preflightCheck("check2", check2Passes(env), "check3")
\* SKIP_CLAUDE_TEST = "true" leaves check 4 out
check3 ==
  preflightCheck("check3", check3Passes(env), IF env.skipClaude THEN "idle" ELSE "check4")
check4 == preflightCheck("check4", check4Passes(env), "idle")

PreflightStart == \E e \in Envs : preflightStart(e)

PreflightNext == PreflightStart \/ check1 \/ check2 \/ check3 \/ check4

PreflightInit ==
  /\ doc = NullConfig
  /\ scripts = {}
  /\ InitCommon

SpecPreflight == PreflightInit /\ [][PreflightNext]_vars

(***************************************************************************)
(* push(options): git push of the target repository to one remote of the   *)
(* registry or to all of them.  The command line calls it, and so does     *)
(* sync after a run with autoPush.                                         *)
(***************************************************************************)
\* Array.prototype.find(r => r.name === remoteName), as an index; 0 is "not found"
findRemote(remotes, name) ==
  IF \E i \in 1..Len(remotes) : remotes[i].name = name
  THEN CHOOSE i \in 1..Len(remotes) :
         /\ remotes[i].name = name
         /\ \A j \in 1..(i - 1) : remotes[j].name # name
  ELSE 0

\* a resolution that lets the document's default win over the option
resolveRemoteNameDefaultFirst(opts, config) ==
  IF Truthy(config["default_remote"]) THEN config["default_remote"]
  ELSE IF opts.remote # "" THEN Str(opts.remote)
  ELSE Str("origin")

\* options?.remote || config.default_remote || "origin"
resolveRemoteName(opts, config) ==
  IF opts.remote # "" THEN Str(opts.remote)
  ELSE IF Truthy(config["default_remote"]) THEN config["default_remote"]
  ELSE Str("origin")

\* a resolution that forgets the branch option in a dry run
resolveBranchDryRun(opts, r) ==
  IF opts.branch # "" /\ ~opts.dryRun THEN Str(opts.branch) ELSE r.branch

\* options?.branch || remote.branch
resolveBranch(opts, r) == IF opts.branch # "" THEN Str(opts.branch) ELSE r.branch

\* an all-remotes loop without the dry-run test
allInvokesGitAlways(opts) == TRUE

\* "if (!options.dryRun)" of the all-remotes loop
allInvokesGit(opts) == ~opts.dryRun

\* "if (!options?.dryRun)" of the single-remote branch
singleInvokesGit(opts) == ~opts.dryRun

\* a loop that reports every remote as pushed
reportAllPushed(succeeded) == "pushed"

\* the try/catch of the all-remotes loop: "Pushed to" or "Failed to push to"
reportAll(succeeded) == IF succeeded THEN "pushed" ELSE "failed"

\* a loop that a failed push ends
nextIndexAbort(idx, succeeded, n) == IF succeeded THEN idx + 1 ELSE n + 1

\* for (const remote of config.remotes): the remote after this one
nextIndex(idx, succeeded, n) == idx + 1

\* (remote, branch) of the git pushes made
pushedTo(log) == [i \in 1..Len(log) |-> [name |-> log[i].name, branch |-> log[i].branch]]

\* (remote, branch) of the reports made
reportedTo(rs) == [i \in 1..Len(rs) |-> [name |-> rs[i].name, branch |-> rs[i].branch]]

removeListeners == [s \in Signals |-> handlers[s] - 1]

\* a push that returns where it should give up
pushExitReturns(msg) ==
  /\ pc' = "idle"
  /\ exitCode' = 0
  /\ out' = msg
  /\ handlers' = IF pushCaller = "sync" THEN removeListeners ELSE handlers

\* process.exit(1) inside push
pushExit(msg) ==
  /\ pc' = "idle"
  /\ exitCode' = 1
  /\ out' = msg
  /\ UNCHANGED handlers

\* push returns: to the command line, or into sync, whose finally block
\* removes the listeners before sync returns
pushReturn(msg) ==
  /\ pc' = "idle"
  /\ exitCode' = 0
  /\ out' = msg
  /\ handlers' = IF pushCaller = "sync" THEN removeListeners ELSE handlers

pushFrame ==
  UNCHANGED <<siteVars, files, dirs, pre, writes, repeated, storeVars, preflightVars, pullVars, scripts,
              preScripts, child, childEnd, pending, received, killed, spawned>>

\* "repomirror push" starts
pushBegin(opts) ==
  /\ pc = "idle"
  /\ pc' = "push"
  /\ cmd' = Command("push", "", <<>>)
  /\ exitCode' = -1
  /\ out' = ""
  /\ pre' = files
  /\ pushOpts' = opts
  /\ pushCaller' = "cli"
  /\ pushIdx' = 0
  /\ reports' = <<>>
  /\ pushLog' = <<>>
  /\ pushCalls' = 1
  /\ prevPush' = IF cmd.op = "push"
                 THEN [ran |-> TRUE, opts |-> pushOpts, pushed |-> pushedTo(pushLog),
                       reported |-> reportedTo(reports)]
                 ELSE NoPrevPush
  /\ UNCHANGED <<siteVars, files, dirs, writes, repeated, storeVars, preflightVars, pullVars, scripts,
                 preScripts, child, childEnd, pending, handlers, received, killed, spawned>>

\* loadConfig and the choice of the mode.  Without a document or a remote:
\* exit(1).  Single-remote mode looks its remote up: exit(1) when the registry
\* does not hold it; a dry run reports the destination and returns.
pushLoad ==
  LET ld == loadConfig(files, dirs, "")
      remotes == remotesOrEmpty(ld.config)
      remoteName == resolveRemoteName(pushOpts, ld.config)
      idx == findRemote(remotes, remoteName)
  IN /\ pc = "push"
     /\ IF ~ld.ok \/ Len(remotes) = 0
        THEN pushExit("no-remotes") /\ UNCHANGED <<pushIdx, reports>>
        ELSE IF pushOpts.all
        THEN /\ pc' = "push-all"
             /\ pushIdx' = 1
             /\ UNCHANGED <<exitCode, out, handlers, reports>>
        ELSE IF idx = 0
        THEN pushExit("remote-not-found") /\ UNCHANGED <<pushIdx, reports>>
        ELSE IF singleInvokesGit(pushOpts)
        THEN /\ pc' = "push-single"
             /\ pushIdx' = idx
             /\ UNCHANGED <<exitCode, out, handlers, reports>>
        ELSE /\ pushReturn("dry-run")
             /\ pushIdx' = idx
             /\ reports' = <<[name |-> remoteName, branch |-> resolveBranch(pushOpts, remotes[idx]),
                              result |-> "would-push"]>>
     /\ UNCHANGED <<cmd, pushOpts, pushCaller, pushLog, pushCalls, prevPush>>
     /\ pushFrame

\* one turn of the all-remotes loop: git push unless this is a dry run, the
\* report, and on to the next remote; after the last one push returns
pushNext(ok) ==
  LET remotes == remotesOrEmpty(loadConfig(files, dirs, "").config)
      r == remotes[pushIdx]
      git == allInvokesGit(pushOpts)
      succeeded == ~git \/ ok
      next == nextIndex(pushIdx, succeeded, Len(remotes))
  IN /\ pc = "push-all"
     /\ ~git => ok
     /\ pushLog' = IF git
                   THEN Append(pushLog, [name |-> r.name, url |-> r.url, branch |-> r.branch,
                                         ok |-> ok])
                   ELSE pushLog
     /\ reports' = Append(reports, [name |-> r.name, branch |-> r.branch,
                                    result |-> reportAll(succeeded)])
     /\ pushIdx' = next
     /\ IF next > Len(remotes)
        THEN pushReturn("pushed-all")
        ELSE UNCHANGED <<pc, exitCode, out, handlers>>
     /\ UNCHANGED <<cmd, pushOpts, pushCaller, pushCalls, prevPush>>
     /\ pushFrame

\* the git push of single-remote mode: a failure is exit(1)
pushSingle(ok) ==
  LET ld == loadConfig(files, dirs, "")
      remotes == remotesOrEmpty(ld.config)
      r == remotes[pushIdx]
      remoteName == resolveRemoteName(pushOpts, ld.config)
      branch == resolveBranch(pushOpts, r)
  IN /\ pc = "push-single"
     /\ pushLog' = Append(pushLog, [name |-> remoteName, url |-> r.url, branch |-> branch,
                                    ok |-> ok])
     /\ reports' = Append(reports, [name |-> remoteName, branch |-> branch,
                                    result |-> IF ok THEN "pushed" ELSE "failed"])
     /\ IF ok THEN pushReturn("pushed") ELSE pushExit("push-failed")
     /\ UNCHANGED <<cmd, pushOpts, pushCaller, pushIdx, pushCalls, prevPush>>
     /\ pushFrame

PushOptions == [all : BOOLEAN, remote : {"", "origin", "staging"}, branch : {"", "dev"},
                dryRun : BOOLEAN]

originRemote == RemoteConfig(Str("origin"), Str("https://x/repo.git"), Str("main"))
stagingRemote == RemoteConfig(Str("staging"), Str("https://x/repo2.git"), Str("dev"))

TwoRemotesConfig == [MinimalConfig EXCEPT !["remotes"] = List(<<originRemote, stagingRemote>>)]
TwoRemotesDefaultConfig == [TwoRemotesConfig EXCEPT !["default_remote"] = Str("staging")]
DanglingDefaultConfig ==
  [MinimalConfig EXCEPT !["default_remote"] = Str("staging"),
                        !["remotes"] = List(<<originRemote>>)]

PushContents ==
  {NoFile, yamlStringify(MinimalConfig), yamlStringify(EmptyRegistryConfig),
   yamlStringify(EditedConfig), yamlStringify(TwoRemotesConfig),
   yamlStringify(TwoRemotesDefaultConfig), yamlStringify(DanglingDefaultConfig)}

PushBegin == \E opts \in PushOptions : pushBegin(opts)
PushNext == \E ok \in BOOLEAN : pushNext(ok)
PushSingle == \E ok \in BOOLEAN : pushSingle(ok)

PushCmdNext == PushBegin \/ pushLoad \/ PushNext \/ PushSingle

(***************************************************************************)
(* The sync executor: sync(options) runs .repomirror/sync.sh once,         *)
(* syncForever() runs .repomirror/ralph.sh; both forward signals to the    *)
(* subprocess while they wait for it.                                      *)
(***************************************************************************)
scriptOf(op) == IF op = "sync" THEN "sync.sh" ELSE "ralph.sh"

\* an access check that never fails
scriptExistsAlways(present, script) == TRUE

\* fs.access(script)
scriptExists(present, script) == script \in present

\* a handler that kills the subprocess outright
signalHandlerKill(sig) == "SIGKILL"

\* a handler that passes on the signal it was called for
signalHandlerSame(sig) == sig

\* signalHandler: the signal it passes to subprocess.kill
signalHandler(sig) == "SIGINT"

\* exit status of a process that a signal ends
SignalExit(sig) == IF sig = "SIGINT" THEN 130 ELSE 143

syncFrame == UNCHANGED <<siteVars, files, dirs, pre, writes, repeated, storeVars, preflightVars>>

\* sync or syncForever is entered and asks for its script (await fs.access)
syncEnter(op, autoPush) ==
  /\ pc' = "access"
  /\ cmd' = Command(op, IF autoPush THEN "autoPush" ELSE "", <<>>)
  /\ exitCode' = -1
  /\ out' = ""
  /\ preScripts' = scripts
  /\ child' = "none"
  /\ childEnd' = NoChildEnd
  /\ pending' = <<>>
  /\ handlers' = [s \in Signals |-> 0]
  /\ received' = <<>>
  /\ killed' = <<>>
  /\ spawned' = 0
  /\ pushLog' = <<>>
  /\ pushOpts' = NoPushOpts
  /\ pushCaller' = ""
  /\ pushIdx' = 0
  /\ reports' = <<>>
  /\ pushCalls' = 0
  /\ UNCHANGED <<scripts, prevPush>>
  /\ syncFrame

\* "repomirror sync" or "repomirror sync-forever" starts
syncBegin(op, autoPush) ==
  /\ pc = "idle"
  /\ syncEnter(op, autoPush)
  /\ chained' = ""
  /\ UNCHANGED <<pullOpts, gitLog>>

\* the script is missing: exit(1); otherwise spawn bash on it, register the
\* handler for SIGINT and SIGTERM and await the subprocess
syncAccess ==
  /\ pc = "access"
  /\ IF scriptExists(scripts, scriptOf(cmd.op))
     THEN /\ pc' = "await"
          /\ child' = "running"
          /\ spawned' = spawned + 1
          /\ handlers' = [s \in Signals |-> handlers[s] + 1]
          /\ UNCHANGED <<exitCode, out>>
     ELSE /\ pc' = "idle"
          /\ exitCode' = 1
          /\ out' = "script-not-found"
          /\ UNCHANGED <<child, spawned, handlers>>
  /\ UNCHANGED <<cmd, scripts, preScripts, childEnd, pending, received, killed, pushLog>>
  /\ UNCHANGED <<pushVars, pullVars>>
  /\ syncFrame

\* a signal reaches the parent.  With a listener registered the handler runs:
\* it calls subprocess.kill, which reaches the subprocess only while it runs.
\* Without a listener the signal ends the parent.
signal(sig) ==
  /\ pc \in {"access", "await"} \/ (pushCaller = "sync" /\ pc \in {"push", "push-all"})
  /\ Len(received) < MaxSignals
  /\ received' = Append(received, [signal |-> sig, child |-> child])
  /\ IF handlers[sig] >= 1
     THEN /\ killed' = Append(killed, signalHandler(sig))
          /\ pending' = IF child = "running" THEN Append(pending, signalHandler(sig)) ELSE pending
          /\ UNCHANGED <<pc, exitCode, out>>
     ELSE /\ pc' = "idle"
          /\ exitCode' = SignalExit(sig)
          /\ out' = "killed-by-signal"
          /\ UNCHANGED <<killed, pending>>
  /\ UNCHANGED <<cmd, scripts, preScripts, child, childEnd, handlers, spawned, pushLog>>
  /\ UNCHANGED <<pushVars, pullVars>>
  /\ syncFrame

childFrame ==
  /\ UNCHANGED <<pc, cmd, exitCode, out, scripts, preScripts, handlers, received, killed,
                 spawned, pushLog>>
  /\ UNCHANGED <<pushVars, pullVars>>
  /\ syncFrame

\* the subprocess ends by itself: sync.sh with status 0 or not, ralph.sh (an
\* endless loop) only with a failure
childExits(ok) ==
  /\ child = "running"
  /\ ok => cmd.op = "sync"
  /\ child' = "exited"
  /\ childEnd' = [kind |-> IF ok THEN "ok" ELSE "failed", signal |-> "", by |-> ""]
  /\ pending' = <<>>
  /\ childFrame

\* the subprocess acts on the oldest signal sent to it and dies of it
childDies ==
  /\ child = "running"
  /\ pending # <<>>
  /\ child' = "exited"
  /\ childEnd' = [kind |-> "signal", signal |-> Head(pending), by |-> "parent"]
  /\ pending' = <<>>
  /\ childFrame

\* the subprocess traps the oldest signal sent to it and runs on
childIgnores ==
  /\ child = "running"
  /\ pending # <<>>
  /\ pending' = Tail(pending)
  /\ UNCHANGED <<child, childEnd>>
  /\ childFrame

\* something other than the parent ends the subprocess with a signal
childKilled(sig) ==
  /\ child = "running"
  /\ child' = "exited"
  /\ childEnd' = [kind |-> "signal", signal |-> sig, by |-> "other"]
  /\ pending' = <<>>
  /\ childFrame

\* a catch block that takes every signal for a stop by the user
stoppedByAnySignal(end) == end.kind = "signal"

\* error.signal === "SIGINT" in the catch block
stoppedByUser(end) == end.kind = "signal" /\ end.signal = "SIGINT"

\* a sync that pushes after every successful run
autoPushWantedAlways(action, ld) == ld.ok

\* "if (options?.autoPush)" and "if (config)"
autoPushWanted(action, ld) == action = "autoPush" /\ ld.ok

\* "await subprocess" is over.  The catch block removes the listeners and exits
\* with 0 for a subprocess that SIGINT ended, with 1 otherwise.  After a normal
\* end sync calls push({all: true}) when autoPush is set and a document loads;
\* else the finally block removes the listeners and the command returns.
syncResume ==
  /\ pc = "await"
  /\ child = "exited"
  /\ IF childEnd.kind = "ok"
     THEN IF autoPushWanted(cmd.action, loadConfig(files, dirs, ""))
          THEN /\ pc' = "push"
               /\ out' = "sync-completed"
               /\ pushOpts' = [NoPushOpts EXCEPT !.all = TRUE]
               /\ pushCaller' = "sync"
               /\ pushCalls' = pushCalls + 1
               /\ UNCHANGED <<exitCode, handlers>>
          ELSE /\ pc' = "idle"
               /\ out' = "sync-completed"
               /\ exitCode' = 0
               /\ handlers' = removeListeners
               /\ UNCHANGED <<pushOpts, pushCaller, pushCalls>>
     ELSE /\ pc' = "idle"
          /\ handlers' = removeListeners
          /\ IF stoppedByUser(childEnd)
             THEN exitCode' = 0 /\ out' = "stopped-by-user"
             ELSE exitCode' = 1 /\ out' = "sync-failed"
          /\ UNCHANGED <<pushOpts, pushCaller, pushCalls>>
  /\ UNCHANGED <<cmd, scripts, preScripts, child, childEnd, pending, received, killed, spawned,
                 pushLog, pushIdx, reports, prevPush, pullVars>>
  /\ syncFrame

SyncBegin == \E autoPush \in BOOLEAN : syncBegin("sync", autoPush)
SyncForeverBegin == syncBegin("syncForever", FALSE)
Signal == \E sig \in Signals : signal(sig)
ChildExits == \E ok \in BOOLEAN : childExits(ok)
ChildKilled == \E sig \in {"SIGINT", "SIGTERM", "SIGKILL"} : childKilled(sig)

SyncNext ==
  \/ SyncBegin
  \/ SyncForeverBegin
  \/ syncAccess
  \/ Signal
  \/ ChildExits
  \/ childDies
  \/ childIgnores
  \/ ChildKilled
  \/ syncResume
  \/ pushLoad
  \/ PushNext

SyncInit ==
  /\ doc = NullConfig
  /\ scripts \in SUBSET ScriptNames
  /\ InitCommon

SpecSync == SyncInit /\ [][SyncNext]_vars

(***************************************************************************)
(* Properties of the remote registry.                                      *)
(***************************************************************************)
\* the registry a file content holds: its remotes, none when the key is not set
Registry(content) == remotesOrEmpty(yamlParse(content))

NoDuplicateNames(remotes) ==
  \A i, j \in 1..Len(remotes) : i # j => remotes[i].name # remotes[j].name

RanRemote(action) == cmd.op = "remote" /\ cmd.action = action /\ pc = "idle"

\* C1: starting from a document whose remotes have unique names (or none), no
\* sequence of remote add and remote remove commands leaves two entries with the
\* same name in the persisted remotes.
C1_UniqueNames ==
  files[Cwd].kind = "yaml" => NoDuplicateNames(Registry(files[Cwd]))

\* an add of a name that was already there, into a registry of two
C1_Witness ==
  /\ RanRemote("add")
  /\ out = "updated"
  /\ Len(Registry(files[Cwd])) = 2
  /\ Registry(files[Cwd]) # Registry(pre[Cwd])

\* C2: remote add of a name in the registry replaces that entry's url and branch
\* at the same index and leaves the length and every other entry as they were;
\* of a name not in the registry it appends the entry; either way the document
\* is written.
C2_AddUpserts ==
  (RanRemote("add") /\ exitCode = 0) =>
    LET before == Registry(pre[Cwd])
        after == Registry(files[Cwd])
        name == cmd.args[1]
        entry == RemoteConfig(Str(name), Str(cmd.args[2]),
                              Str(IF Len(cmd.args) >= 3 THEN cmd.args[3] ELSE "main"))
        at == {i \in 1..Len(before) : before[i].name = Str(name)}
    IN /\ files[Cwd].kind = "yaml"
       /\ writes = 1
       /\ IF at # {}
          THEN /\ Len(after) = Len(before)
               /\ \A i \in 1..Len(before) : after[i] = IF i \in at THEN entry ELSE before[i]
          ELSE after = Append(before, entry)

\* the first of two entries gets a new url and branch
C2_Witness ==
  /\ RanRemote("add")
  /\ exitCode = 0
  /\ Len(Registry(pre[Cwd])) = 2
  /\ Registry(pre[Cwd])[1].name = Str(cmd.args[1])
  /\ Registry(pre[Cwd])[1].url # Str(cmd.args[2])
  /\ Registry(files[Cwd])[2] = Registry(pre[Cwd])[2]

\* C3: remote add is idempotent: the same add run a second time leaves the
\* persisted document as the first run left it.
C3_AddIdempotent ==
  (RanRemote("add") /\ exitCode = 0 /\ repeated) => files = pre

\* the second of two identical adds, on a registry of two
C3_Witness ==
  /\ RanRemote("add")
  /\ exitCode = 0
  /\ repeated
  /\ Len(Registry(files[Cwd])) = 2

\* C4: remote remove of a name that is not in the registry (the document may
\* have no remotes key) leaves the document as it was, writes nothing and exits
\* with 0.
C4_RemoveAbsent ==
  (/\ RanRemote("remove")
   /\ Arg(cmd.args, 1) # ""
   /\ pre[Cwd].kind = "yaml"
   /\ \A i \in 1..Len(Registry(pre[Cwd])) : Registry(pre[Cwd])[i].name # Str(cmd.args[1]))
  => (files = pre /\ writes = 0 /\ exitCode = 0 /\ out = "not-found")

\* a remove of a name that the non-empty registry does not hold
C4_Witness ==
  /\ RanRemote("remove")
  /\ out = "not-found"
  /\ Len(Registry(pre[Cwd])) >= 1

\* C5: remote add without a name or without a url exits with a non-zero status
\* and leaves the document as it was; nothing is written.
C5_AddUsage ==
  (RanRemote("add") /\ (Arg(cmd.args, 1) = "" \/ Arg(cmd.args, 2) = ""))
  => (exitCode = 1 /\ files = pre /\ writes = 0)

\* an add with a name and no url, where a document exists
C5_Witness ==
  /\ RanRemote("add")
  /\ Arg(cmd.args, 1) # ""
  /\ Arg(cmd.args, 2) = ""
  /\ pre[Cwd].kind = "yaml"
  /\ out = "usage"

\* C6: add, list and remove, run where no document can be loaded, exit with a
\* non-zero status at once: no document is created, no remote added or removed.
C6_ConfigMissing ==
  (cmd.op = "remote" /\ pc = "idle" /\ pre[Cwd].kind # "yaml")
  => (exitCode = 1 /\ files = pre /\ writes = 0 /\ out = "config-not-found")

\* a well-formed add where no repomirror.yaml exists
C6_Witness ==
  /\ RanRemote("add")
  /\ Len(cmd.args) = 3
  /\ pre[Cwd] = NoFile
  /\ exitCode = 1

(***************************************************************************)
(* Properties of the configuration store.                                  *)
(***************************************************************************)
\* C7: saveConfig followed by loadConfig from the same base directory answers a
\* document equal to the one saved, an optional key being set in it exactly
\* when it was set in the saved one.
C7_RoundTrip ==
  (cmd.op = "loadConfig" /\ savedDir # "" /\ baseDir(cmd.action) = savedDir)
  => /\ loaded.ok
     /\ loaded.config = doc
     /\ \A k \in Keys : (loaded.config[k].t = "undef") <=> (doc[k].t = "undef")

\* a document with strings that read as a boolean and a number, saved into a
\* directory that did not exist and loaded from there
C7_Witness ==
  /\ cmd.op = "loadConfig"
  /\ savedDir = SubDir
  /\ baseDir(cmd.action) = savedDir
  /\ doc["default_remote"] = Str("1")
  /\ doc["auto_sync"].t = "undef"
  /\ Len(doc["remotes"].items) = 2
  /\ loaded.ok

(***************************************************************************)
(* Properties of the preflight checks.                                     *)
(***************************************************************************)
checkOrder == <<"check1", "check2", "check3", "check4">>

checkPassed(n) ==
  CASE n = "check1" -> env.targetExists
    [] n = "check2" -> env.isRepo
    [] n = "check3" -> env.gitRemotes >= 1
    [] n = "check4" -> env.claudeOut >= MinResponseLength

\* C8: the preflight checks start in the order 1, 2, 3, 4, one only after every
\* earlier one passed; the first failing check ends preflight with a non-zero
\* exit.  A target that exists and is a repository without remotes fails at
\* check 3, and check 4 is never started.
C8_PreflightOrder ==
  cmd.op = "preflight" =>
    /\ Len(started) <= 4
    /\ \A i \in 1..Len(started) : started[i] = checkOrder[i]
    /\ \A i \in 1..(Len(started) - 1) : checkPassed(started[i])
    /\ (Len(started) >= 1 /\ ~checkPassed(started[Len(started)]))
         => (pc = "idle" /\ exitCode = 1)
    /\ (pc = "idle" /\ exitCode = 0)
         => (\A i \in 1..Len(started) : checkPassed(started[i]))
    /\ (env.targetExists /\ env.isRepo /\ env.gitRemotes = 0)
         => (\A i \in 1..Len(started) : started[i] # "check4")
    /\ (env.targetExists /\ env.isRepo /\ env.gitRemotes = 0 /\ pc = "idle")
         => (started = <<"check1", "check2", "check3">> /\ exitCode = 1)

\* a repository without remotes, claude in working order: preflight ended at check 3
C8_Witness ==
  /\ cmd.op = "preflight"
  /\ pc = "idle"
  /\ env.targetExists /\ env.isRepo /\ env.gitRemotes = 0
  /\ ~env.skipClaude /\ env.claudeOut >= MinResponseLength
  /\ started = <<"check1", "check2", "check3">>
  /\ exitCode = 1

(***************************************************************************)
(* Properties of the sync executor.                                        *)
(***************************************************************************)
\* C9: sync and syncForever, when their script does not exist, end at once
\* with a non-zero status: no subprocess spawned, no signal handler registered,
\* no script generated.
C9_ScriptMissing ==
  (cmd.op \in {"sync", "syncForever"} /\ scriptOf(cmd.op) \notin preScripts)
  => /\ pc \in {"access", "idle"}
     /\ pc = "idle" => exitCode # 0
     /\ spawned = 0
     /\ child = "none"
     /\ \A s \in Signals : handlers[s] = 0
     /\ scripts = preScripts

\* sync --auto-push where ralph.sh exists and sync.sh does not
C9_Witness ==
  /\ cmd = Command("sync", "autoPush", <<>>)
  /\ preScripts = {"ralph.sh"}
  /\ pc = "idle"
  /\ exitCode = 1
  /\ out = "script-not-found"

\* the signals the parent received while its subprocess ran
receivedWhileRunning == SelectSeq(received, LAMBDA r : r.child = "running")

\* C10 as claimed: every signal received while the subprocess runs is passed
\* to it as the same signal.
C10_ForwardsSameSignal ==
  cmd.op \in {"sync", "syncForever"} =>
    LET rs == receivedWhileRunning IN
    /\ Len(killed) >= Len(rs)
    /\ \A i \in 1..Len(rs) : killed[i] = rs[i].signal

\* C10, amended: every SIGINT or SIGTERM received while the subprocess runs is
\* passed to it as SIGINT.
C10_ForwardsAsSigint ==
  cmd.op \in {"sync", "syncForever"} =>
    LET rs == receivedWhileRunning IN
    /\ Len(killed) >= Len(rs)
    /\ \A i \in 1..Len(rs) : killed[i] = "SIGINT"

\* SIGTERM, then SIGINT, both while the subprocess ran
C10_Witness ==
  /\ cmd.op = "syncForever"
  /\ Len(receivedWhileRunning) = 2
  /\ received[1].signal = "SIGTERM"
  /\ received[2].signal = "SIGINT"
  /\ Len(killed) = 2

SyncRan == cmd.op \in {"sync", "syncForever"}

\* the subprocess ended, and not with status 0, and the command is over
EndedAbnormally ==
  SyncRan /\ pc = "idle" /\ child = "exited" /\ childEnd.kind \in {"failed", "signal"}

\* C11 as claimed: after an abnormal end of the subprocess the parent exits with
\* 0 if and only if a signal that the parent forwarded ended the subprocess.
C11_ZeroIffForwarded ==
  EndedAbnormally => ((exitCode = 0) <=> (childEnd.kind = "signal" /\ childEnd.by = "parent"))

\* C11, amended: after an abnormal end of the subprocess the parent exits with
\* 0 if and only if SIGINT ended the subprocess, whoever sent it (a signal the
\* parent forwarded is always SIGINT); after any other abnormal end it exits
\* with 1.
C11_ZeroIffSigint ==
  EndedAbnormally =>
    /\ (exitCode = 0) <=> (childEnd.kind = "signal" /\ childEnd.signal = "SIGINT")
    /\ (childEnd.kind = "signal" /\ childEnd.by = "parent") => exitCode = 0
    /\ exitCode \in {0, 1}

\* nobody signalled the parent; something else sent SIGINT to the subprocess
C11_Witness ==
  /\ EndedAbnormally
  /\ received = <<>>
  /\ childEnd = [kind |-> "signal", signal |-> "SIGINT", by |-> "other"]
  /\ exitCode = 0

\* C12: whenever sync or syncForever is over, on whatever path, the listeners
\* it registered for SIGINT and SIGTERM are registered no more.
C12_ListenersRemoved ==
  (SyncRan /\ pc = "idle") => (\A sig \in Signals : handlers[sig] = 0)

\* C13: sync calls push for all remotes only after its subprocess ended with
\* status 0, and then exactly when autoPush is set and a document loads; after a
\* failed or cancelled subprocess, without the flag or without a document, no
\* push is attempted.
C13_AutoPush ==
  cmd.op = "sync" =>
    LET wanted == cmd.action = "autoPush" /\ pre[Cwd].kind = "yaml" IN
    /\ pushCalls <= 1
    /\ pushCalls = 1 =>
         /\ child = "exited" /\ childEnd.kind = "ok"
         /\ wanted
         /\ pushOpts = [NoPushOpts EXCEPT !.all = TRUE]
    /\ (pc = "idle" /\ child = "exited" /\ childEnd.kind = "ok" /\ wanted) => pushCalls = 1
    /\ pushLog # <<>> => pushCalls = 1

\* sync with autoPush went through: the one remote of the document was pushed to
C13_Witness ==
  /\ cmd = Command("sync", "autoPush", <<>>)
  /\ pc = "idle"
  /\ exitCode = 0
  /\ pushCalls = 1
  /\ Len(pushLog) = 1

(***************************************************************************)
(* push from the command line.                                             *)
(***************************************************************************)
PushInit ==
  /\ doc = NullConfig
  /\ scripts = {}
  /\ InitWith(PushContents)

SpecPush == PushInit /\ [][PushCmdNext]_vars

(***************************************************************************)
(* Properties of push.                                                     *)
(***************************************************************************)
\* the document push loaded, and its registry
PushConfig == yamlParse(files[Cwd])
PushRegistry == Registry(files[Cwd])

\* push was called, loaded a document and found a remote in it
PushRan == pushCalls >= 1 /\ files[Cwd].kind = "yaml" /\ Len(PushRegistry) >= 1

\* C14: a live all-remotes push with N remotes attempts one git push per
\* remote, in registry order, to that remote's url and branch, whichever of
\* them fail: a failure never keeps the later remotes from their attempt.
C14_AllAttempted ==
  (PushRan /\ pushOpts.all /\ ~pushOpts.dryRun) =>
    /\ Len(pushLog) <= Len(PushRegistry)
    /\ \A i \in 1..Len(pushLog) :
         /\ pushLog[i].name = PushRegistry[i].name
         /\ pushLog[i].url = PushRegistry[i].url
         /\ pushLog[i].branch = PushRegistry[i].branch
    /\ pc = "push-all" => Len(pushLog) = pushIdx - 1
    /\ pc = "idle" => Len(pushLog) = Len(PushRegistry)

\* the push to the first of two remotes failed, the second was attempted
C14_Witness ==
  /\ PushRan /\ pushOpts.all /\ ~pushOpts.dryRun
  /\ pc = "idle"
  /\ Len(PushRegistry) = 2
  /\ Len(pushLog) = 2
  /\ ~pushLog[1].ok
  /\ pushLog[2].ok

\* C15: a live all-remotes push reports a failure for exactly the remotes whose
\* push failed and a success for the others, and ends with status 0 however
\* many of them failed.
C15_AllReported ==
  (PushRan /\ pushOpts.all /\ ~pushOpts.dryRun) =>
    /\ Len(reports) = Len(pushLog)
    /\ \A i \in 1..Len(reports) :
         /\ reports[i].name = PushRegistry[i].name
         /\ reports[i].result = IF pushLog[i].ok THEN "pushed" ELSE "failed"
    /\ pc = "idle" => (exitCode = 0 /\ Len(reports) = Len(PushRegistry))

\* both pushes failed and the command ended with status 0
C15_Witness ==
  /\ PushRan /\ pushOpts.all /\ ~pushOpts.dryRun
  /\ pc = "idle"
  /\ exitCode = 0
  /\ Len(reports) = 2
  /\ reports[1].result = "failed"
  /\ reports[2].result = "failed"

\* the remote single-remote push is to go to: the option, else default_remote,
\* else "origin"
ExpectedRemote ==
  IF pushOpts.remote # "" THEN Str(pushOpts.remote)
  ELSE IF PushConfig["default_remote"].t # "undef" THEN PushConfig["default_remote"]
  ELSE Str("origin")

\* C16: single-remote push goes to the remote named by the option, else by the
\* document's default_remote, else "origin".  A name the registry does not hold
\* ends the command with a non-zero status and without a git push, dry run or
\* not; a failed git push ends it with a non-zero status.
C16_SingleRemote ==
  (PushRan /\ ~pushOpts.all) =>
    LET at == {i \in 1..Len(PushRegistry) : PushRegistry[i].name = ExpectedRemote} IN
    IF at = {}
    THEN /\ pushLog = <<>>
         /\ reports = <<>>
         /\ pc \in {"push", "idle"}
         /\ pc = "idle" => exitCode = 1
    ELSE /\ Len(pushLog) <= 1
         /\ \A i \in 1..Len(pushLog) :
              /\ pushLog[i].name = ExpectedRemote
              /\ \E j \in at : pushLog[i].url = PushRegistry[j].url
         /\ (pc = "idle" /\ ~pushOpts.dryRun) =>
              /\ Len(pushLog) = 1
              /\ exitCode = IF pushLog[1].ok THEN 0 ELSE 1

\* a dry run without --remote: default_remote names a remote that is not there
C16_Witness ==
  /\ PushRan /\ ~pushOpts.all /\ pushOpts.dryRun
  /\ pushOpts.remote = ""
  /\ PushConfig["default_remote"] = Str("staging")
  /\ PushRegistry = <<originRemote>>
  /\ pc = "idle"
  /\ exitCode = 1
  /\ out = "remote-not-found"

\* C17: a dry-run push makes no git push, whatever the document and the all,
\* remote and branch options.
C17_DryRunNoPush ==
  (pushCalls >= 1 /\ pushOpts.dryRun) => pushLog = <<>>

\* a dry run over two remotes went through
C17_Witness ==
  /\ PushRan /\ pushOpts.all /\ pushOpts.dryRun
  /\ pc = "idle"
  /\ Len(reports) = 2
  /\ pushLog = <<>>

\* this push command and the one before it differ in dryRun only
DryAfterLive ==
  /\ cmd.op = "push" /\ pc = "idle" /\ prevPush.ran
  /\ pushOpts.dryRun
  /\ prevPush.opts = [pushOpts EXCEPT !.dryRun = FALSE]

LiveAfterDry ==
  /\ cmd.op = "push" /\ pc = "idle" /\ prevPush.ran
  /\ ~pushOpts.dryRun
  /\ prevPush.opts = [pushOpts EXCEPT !.dryRun = TRUE]

PullOptions == [check : BOOLEAN, sourceOnly : BOOLEAN, syncAfter : BOOLEAN]

\* a pull that applies whenever syncAfter is set
checkModeUnlessSyncAfter(opts) == opts.check /\ ~opts.syncAfter

\* "if (options?.check) { ... return; }"
checkMode(opts) == opts.check

\* a pull that looks at auto_sync first
chainAfterPullAutoFirst(opts, config) ==
  IF opts.sourceOnly THEN ""
  ELSE IF Truthy(config["auto_sync"]) THEN "sync"
  ELSE IF opts.syncAfter THEN "syncForever"
  ELSE ""

\* the executor pull calls after "git pull": "" for none
chainAfterPull(opts, config) ==
  IF opts.sourceOnly THEN ""
  ELSE IF opts.syncAfter THEN "syncForever"
  ELSE IF Truthy(config["auto_sync"]) THEN "sync"
  ELSE ""

\* a pull that goes on to sync whatever git pull did
chainAttemptedAlways(ok, op) == op # ""

\* the calls of syncForever and sync come after "await execa(git pull)" in the
\* try block: a rejected git pull skips them
chainAttempted(ok, op) == ok /\ op # ""

pullFrame ==
  UNCHANGED <<siteVars, files, dirs, writes, repeated, storeVars, preflightVars, syncVars, pushVars>>

\* "repomirror pull" starts
pullBegin(opts) ==
  /\ pc = "idle"
  /\ pc' = "pull"
  /\ cmd' = Command("pull", "", <<>>)
  /\ exitCode' = -1
  /\ out' = ""
  /\ pre' = files
  /\ pullOpts' = opts
  /\ gitLog' = <<>>
  /\ chained' = ""
  /\ preScripts' = scripts
  /\ child' = "none"
  /\ childEnd' = NoChildEnd
  /\ pending' = <<>>
  /\ handlers' = [s \in Signals |-> 0]
  /\ received' = <<>>
  /\ killed' = <<>>
  /\ spawned' = 0
  /\ pushLog' = <<>>
  /\ UNCHANGED <<siteVars, files, dirs, writes, repeated, storeVars, preflightVars, scripts, pushVars>>

\* loadConfig: without a document exit(1); else on to check mode or apply mode
pullLoad ==
  /\ pc = "pull"
  /\ LET ld == loadConfig(files, dirs, "") IN
     IF ~ld.ok
     THEN pc' = "idle" /\ exitCode' = 1 /\ out' = "no-config"
     ELSE /\ pc' = IF checkMode(pullOpts) THEN "pull-check" ELSE "pull-apply"
          /\ UNCHANGED <<exitCode, out>>
  /\ UNCHANGED <<cmd, pre, pullVars>>
  /\ pullFrame

\* check mode: git fetch, then git status; a failure of either is exit(1)
pullCheck(fetchOk, statusOk) ==
  /\ pc = "pull-check"
  /\ pc' = "idle"
  /\ gitLog' = IF fetchOk
               THEN <<[git |-> "fetch", ok |-> TRUE], [git |-> "status", ok |-> statusOk]>>
               ELSE <<[git |-> "fetch", ok |-> FALSE]>>
  /\ IF fetchOk /\ statusOk
     THEN exitCode' = 0 /\ out' = "checked"
     ELSE exitCode' = 1 /\ out' = "check-failed"
  /\ UNCHANGED <<cmd, pre, pullOpts, chained>>
  /\ pullFrame

\* apply mode: git pull; a failure is exit(1); after a success pull calls
\* syncForever, or sync, or returns
pullApply(ok) ==
  /\ pc = "pull-apply"
  /\ gitLog' = <<[git |-> "pull", ok |-> ok]>>
  /\ LET op == chainAfterPull(pullOpts, loadConfig(files, dirs, "").config) IN
     IF chainAttempted(ok, op)
     THEN /\ syncEnter(op, FALSE)
          /\ chained' = op
          /\ UNCHANGED pullOpts
     ELSE /\ pc' = "idle"
          /\ IF ok
             THEN exitCode' = 0 /\ out' = "source-updated"
             ELSE exitCode' = 1 /\ out' = "pull-failed"
          /\ UNCHANGED <<cmd, pre, pullOpts, chained>>
          /\ pullFrame

AutoSyncOffConfig == [MinimalConfig EXCEPT !["auto_sync"] = Bool(FALSE)]

PullContents == {NoFile, yamlStringify(MinimalConfig), yamlStringify(EditedConfig),
                 yamlStringify(AutoSyncOffConfig)}

PullBegin == \E opts \in PullOptions : pullBegin(opts)
PullCheck == \E fetchOk, statusOk \in BOOLEAN : pullCheck(fetchOk, statusOk)
PullApply == \E ok \in BOOLEAN : pullApply(ok)

PullNext ==
  \/ PullBegin
  \/ pullLoad
  \/ PullCheck
  \/ PullApply
  \/ syncAccess
  \/ Signal
  \/ ChildExits
  \/ childDies
  \/ childIgnores
  \/ ChildKilled
  \/ syncResume

PullInit ==
  /\ doc = NullConfig
  /\ scripts \in SUBSET ScriptNames
  /\ InitWith(PullContents)

SpecPull == PullInit /\ [][PullNext]_vars

(***************************************************************************)
(* Properties of pull.                                                     *)
(***************************************************************************)
\* pull was called: it runs, or is over, or is inside the executor it called
PullRan == cmd.op = "pull" \/ chained # ""

\* pull is past loadConfig, which found a document
PullLoaded == PullRan /\ pc # "pull" /\ pre[Cwd].kind = "yaml"

\* C19: pull in check mode starts neither sync nor syncForever and never runs
\* git pull, whatever the document (auto_sync true included) and the syncAfter
\* and sourceOnly options.
C19_CheckIsReadOnly ==
  (PullRan /\ pullOpts.check) =>
    /\ chained = ""
    /\ cmd.op = "pull"
    /\ spawned = 0
    /\ child = "none"
    /\ pc \in {"pull", "pull-check", "idle"}
    /\ \A i \in 1..Len(gitLog) : gitLog[i].git \in {"fetch", "status"}

\* a check with syncAfter set and auto_sync true went through
C19_Witness ==
  /\ PullLoaded
  /\ pullOpts = [check |-> TRUE, sourceOnly |-> FALSE, syncAfter |-> TRUE]
  /\ yamlParse(pre[Cwd])["auto_sync"] = Bool(TRUE)
  /\ pc = "idle"
  /\ exitCode = 0
  /\ gitLog = <<[git |-> "fetch", ok |-> TRUE], [git |-> "status", ok |-> TRUE]>>

\* git pull went through in apply mode
PullApplied ==
  /\ PullLoaded
  /\ ~pullOpts.check
  /\ gitLog = <<[git |-> "pull", ok |-> TRUE]>>

\* C20: after a successful git pull in apply mode: with sourceOnly nothing is
\* started; else with syncAfter syncForever is started and sync is not, even
\* when auto_sync is true; else with auto_sync true sync is started; else
\* nothing is started.
C20_ChainAfterPull ==
  PullApplied =>
    LET expected ==
          IF pullOpts.sourceOnly THEN ""
          ELSE IF pullOpts.syncAfter THEN "syncForever"
          ELSE IF yamlParse(pre[Cwd])["auto_sync"] = Bool(TRUE) THEN "sync"
          ELSE ""
    IN /\ chained = expected
       /\ chained = "" => (cmd.op = "pull" /\ spawned = 0 /\ pc = "idle" /\ exitCode = 0)
       /\ chained # "" => (cmd.op = chained /\ cmd.action = "")
       /\ spawned <= 1

\* syncAfter with auto_sync true: syncForever runs its script
C20_Witness ==
  /\ PullApplied
  /\ pullOpts = [check |-> FALSE, sourceOnly |-> FALSE, syncAfter |-> TRUE]
  /\ yamlParse(pre[Cwd])["auto_sync"] = Bool(TRUE)
  /\ chained = "syncForever"
  /\ cmd.op = "syncForever"
  /\ spawned = 1
  /\ pc = "await"

\* C21: when git pull fails in apply mode, or when no document loads, pull
\* ends with a non-zero status and neither sync nor syncForever is started.
C21_PullFatal ==
  PullRan =>
    /\ (pre[Cwd].kind # "yaml" /\ pc # "pull") =>
         /\ pc = "idle" /\ exitCode = 1
         /\ gitLog = <<>>
         /\ cmd.op = "pull" /\ chained = "" /\ spawned = 0 /\ child = "none"
    /\ (gitLog = <<[git |-> "pull", ok |-> FALSE]>>) =>
         /\ pc = "idle" /\ exitCode = 1
         /\ cmd.op = "pull" /\ chained = "" /\ spawned = 0 /\ child = "none"

\* git pull failed with syncAfter set and auto_sync true
C21_Witness ==
  /\ PullLoaded
  /\ pullOpts = [check |-> FALSE, sourceOnly |-> FALSE, syncAfter |-> TRUE]
  /\ yamlParse(pre[Cwd])["auto_sync"] = Bool(TRUE)
  /\ gitLog = <<[git |-> "pull", ok |-> FALSE]>>
  /\ pc = "idle"
  /\ exitCode = 1

(***************************************************************************)
(* Further properties of the sync executor.                                *)
(***************************************************************************)
\* C22: in every state in which a listener of the executor is registered the
\* subprocess runs, or has just ended and "await subprocess" is still to
\* resume: no listener is registered during the work that follows, the chained
\* push included.
C22_ListenersOnlyWhileRunning ==
  (\E sig \in Signals : handlers[sig] >= 1) =>
    \/ child = "running"
    \/ child = "exited" /\ pc = "await"

\* C24: the parent never sends its subprocess anything but SIGINT, it is
\* awaiting the subprocess whenever the subprocess runs, and after a signal
\* received while the subprocess ran the parent is over only when the
\* subprocess has ended: with a subprocess that never ends it never exits.
C24_WaitsForChild ==
  SyncRan =>
    /\ \A i \in 1..Len(killed) : killed[i] = "SIGINT"
    /\ child = "running" => (pc = "await" /\ exitCode = -1)
    /\ (receivedWhileRunning # <<>> /\ pc = "idle") => child = "exited"

\* the subprocess trapped every signal the parent passed on and runs on
C24_Witness ==
  /\ SyncRan
  /\ Len(receivedWhileRunning) >= 2
  /\ Len(killed) >= 2
  /\ pending = <<>>
  /\ child = "running"
  /\ pc = "await"

\* sync.sh ended with status 0 and sync is over
SyncSucceeded == cmd.op = "sync" /\ pc = "idle" /\ child = "exited" /\ childEnd.kind = "ok"

\* C29 as claimed: whenever sync.sh ends with status 0, sync ends with status
\* 0, whatever autoPush and the document are.
C29_SuccessExitsZero ==
  SyncSucceeded => exitCode = 0

\* C29, amended: whenever sync.sh ends with status 0, sync ends with status 0,
\* except that with autoPush set and a document that loads without a remote it
\* ends with status 1, the exit of the chained push.
C29_SuccessExitsZeroUnlessNoRemotes ==
  SyncSucceeded =>
    LET noRemotes == /\ cmd.action = "autoPush"
                     /\ pre[Cwd].kind = "yaml"
                     /\ Len(Registry(pre[Cwd])) = 0
    IN exitCode = IF noRemotes THEN 1 ELSE 0

\* autoPush with a document whose registry is the empty list
C29_Witness ==
  /\ SyncSucceeded
  /\ cmd.action = "autoPush"
  /\ pre[Cwd] = yamlStringify(EmptyRegistryConfig)
  /\ pushCalls = 1
  /\ pushLog = <<>>
  /\ out = "no-remotes"
  /\ exitCode = 1

(***************************************************************************)
(* Properties of the commands that rewrite the document.                   *)
(***************************************************************************)
\* the keys a command sets
Touched ==
  CASE cmd.op = "remote" -> {"remotes"}
    [] cmd.op = "setup-github-pr-sync" -> {"target_remote", "times_to_loop"}
    [] OTHER -> {}

\* the command that ran last saved the document
Rewrote == pc = "idle" /\ writes >= 1 /\ cmd.op \in {"remote", "setup-github-pr-sync"}

\* C26: remote add, remote remove and setup-github-pr-sync, when they save the
\* document, leave every key they do not set, the key the schema does not know
\* included, with the value it had in the document they read.
C26_UntouchedKept ==
  Rewrote =>
    /\ pre[Cwd].kind = "yaml"
    /\ files[Cwd].kind = "yaml"
    /\ \A k \in Keys \ Touched : yamlParse(files[Cwd])[k] = yamlParse(pre[Cwd])[k]
    /\ \A d \in Dirs \ {Cwd} : files[d] = pre[d]

\* setup-github-pr-sync saved a document that holds the unknown key, a
\* registry, default_remote and auto_sync
C26_Witness ==
  /\ Rewrote
  /\ cmd.op = "setup-github-pr-sync"
  /\ yamlParse(pre[Cwd])["x_unknown"] = Str("true")
  /\ yamlParse(files[Cwd])["x_unknown"] = Str("true")
  /\ yamlParse(pre[Cwd])["target_remote"] = Undef
  /\ yamlParse(files[Cwd])["target_remote"] = Str("acme/mirror")
  /\ yamlParse(files[Cwd])["times_to_loop"] = Num(2)
  /\ Len(Registry(files[Cwd])) >= 1

(***************************************************************************)
(* init: the document, the preflight checks, the prompt and the scripts.   *)
(***************************************************************************)
\* "" stands for an option that is not given, and for a prompt answered with
\* its default
InitOptions == [sourceRepo : {"", "src"}, targetRepo : {""}]
InitAnswers == {"", "src"}

\* environments of init: all is well; the target directory does not exist
InitEnvs ==
  {[targetExists |-> TRUE, isRepo |-> TRUE, gitRemotes |-> 2, skipClaude |-> FALSE,
    claudeOut |-> MinResponseLength],
   NoEnv}

\* "options?.x || answers.x || defaults.x" with defaults.x = options?.x ||
\* existingConfig?.x || fallback
initField(option, answer, existing, fallback) ==
  IF option # "" THEN Str(option)
  ELSE IF answer # "" THEN Str(answer)
  ELSE IF Truthy(existing) THEN existing
  ELSE Str(fallback)

\* the document init saves: these four keys and no other
finalConfig(existing, sourceRepo, targetRepo, instructions) ==
  [NullConfig EXCEPT !["source_repo"] = sourceRepo, !["target_repo"] = targetRepo,
                     !["transformation_instructions"] = instructions,
                     !["config_version"] = Str("0.1.0")]

\* "join(resolve(sourceRepo), '.repomirror')": the directory that holds it
repomirrorDir(sourceRepo) == resolve(sourceRepo)

\* performPreflightChecks went through
preflightPasses(e) ==
  /\ check1Passes(e) /\ check2Passes(e) /\ check3Passes(e)
  /\ e.skipClaude \/ check4Passes(e)

\* the checks performPreflightChecks started
startedChecks(e) ==
  IF ~check1Passes(e) THEN <<"check1">>
  ELSE IF ~check2Passes(e) THEN <<"check1", "check2">>
  ELSE IF ~check3Passes(e) \/ e.skipClaude THEN <<"check1", "check2", "check3">>
  ELSE <<"check1", "check2", "check3", "check4">>

\* the whole command: load the document of the source repository, ask, save
\* the new document there, run the preflight checks (a failure is exit(1)),
\* generate the prompt (a failure is exit(1)), write the scripts
init(opts, answer, e, promptOk) ==
  LET sourceRepoPath == IF opts.sourceRepo # "" THEN opts.sourceRepo ELSE "./"
      existing == loadConfig(files, dirs, sourceRepoPath)
      sourceRepo == initField(opts.sourceRepo, answer, existing.config["source_repo"], "./")
      targetRepo == initField(opts.targetRepo, "", existing.config["target_repo"],
                              "../w-transformed")
      instructions == initField("", "", existing.config["transformation_instructions"],
                                "translate this python repo to typescript")
      config == finalConfig(existing.config, sourceRepo, targetRepo, instructions)
      generated == preflightPasses(e) /\ (e.skipClaude \/ promptOk)
      dir == repomirrorDir(sourceRepo.s)
  IN /\ pc = "idle"
     /\ pc' = "idle"
     /\ cmd' = Command("init", sourceRepo.s, <<>>)
     /\ pre' = files
     /\ preScripts' = scripts
     /\ repeated' = FALSE
     /\ loaded' = existing
     /\ doc' = config
     /\ savedDir' = baseDir(sourceRepo.s)
     /\ files' = saveConfigFiles(files, config, sourceRepo.s)
     /\ dirs' = saveConfigDirs(dirs, sourceRepo.s) \cup (IF generated THEN {dir} ELSE {})
     /\ writes' = 1
     /\ env' = e
     /\ started' = startedChecks(e)
     /\ exitCode' = IF generated THEN 0 ELSE 1
     /\ out' = IF ~preflightPasses(e) THEN "preflight-failed"
               ELSE IF ~generated THEN "prompt-failed" ELSE "initialized"
     /\ scripts' = IF generated /\ dir = Cwd THEN scripts \cup ScriptNames ELSE scripts
     /\ subScripts' = IF generated /\ dir = SubDir THEN subScripts \cup ScriptNames
                      ELSE subScripts
     /\ inited' = IF generated THEN sourceRepo.s ELSE inited
     /\ UNCHANGED <<workflow, loop, child, childEnd, pending, handlers, received, killed,
                    spawned, pushLog, pushVars, pullVars>>

InitCmd ==
  \E opts \in InitOptions, answer \in InitAnswers, e \in InitEnvs, promptOk \in BOOLEAN :
    init(opts, answer, e, promptOk)

\* the commands run after init, from the same working directory
SyncAfterInit == syncBegin("sync", FALSE)
PullAfterInit == pullBegin([check |-> TRUE, sourceOnly |-> FALSE, syncAfter |-> FALSE])

InitNext ==
  \/ InitCmd
  \/ SyncAfterInit
  \/ SyncForeverBegin
  \/ syncAccess
  \/ ChildExits
  \/ syncResume
  \/ RemoteListCmd
  \/ PullAfterInit
  \/ pullLoad
  \/ PullCheck

InitInit ==
  /\ doc = NullConfig
  /\ scripts = {}
  /\ InitWith({NoFile, yamlStringify(MinimalConfig), yamlStringify(EditedConfig)})

SpecInit == InitInit /\ [][InitNext]_vars

(***************************************************************************)
(* Properties of init.                                                     *)
(***************************************************************************)
\* init saved its document where a document was
InitOverDocument ==
  /\ cmd.op = "init" /\ pc = "idle"
  /\ savedDir \in Dirs
  /\ pre[savedDir].kind = "yaml"

\* C27: init run where a document is keeps the remotes, default_remote and
\* auto_sync of that document in the document it writes.
C27_InitKeepsRegistry ==
  InitOverDocument =>
    \A k \in {"remotes", "default_remote", "auto_sync"} :
      yamlParse(files[savedDir])[k] = yamlParse(pre[savedDir])[k]

\* C28: after an init that went through, whatever its source repository, sync
\* and syncForever run from the same working directory find their script, and
\* remote and pull find the document: none ends with the "run init first" error.
C28_FoundAfterInit ==
  (inited # "" /\ pc = "idle" /\ cmd.op \in {"sync", "syncForever", "remote", "pull"}) =>
    out \notin {"script-not-found", "config-not-found", "no-config"}

(***************************************************************************)
(* ralph.sh, the subprocess of syncForever: while true; do <step>; echo;   *)
(* sleep 3; done.  The step is a claude session in the target repository.  *)
(***************************************************************************)
\* "sleep 3"
RalphDelay == 3

\* a loop that gives up after MaxRuns runs
loopContinuesLimited(runs) == runs < MaxRuns

\* "while true"
loopContinues(runs) == TRUE

\* the delay after a run: the same whatever the delay before was
nextDelay(prev) == RalphDelay

ralphFrame ==
  UNCHANGED <<files, dirs, pc, cmd, exitCode, pre, writes, out, repeated, storeVars,
              preflightVars, pushVars, pullVars, workflow, subScripts, inited, scripts,
              preScripts, pending, handlers, received, killed, spawned, pushLog>>

ralphRuns == cmd.op = "syncForever" /\ child = "running"

\* bash enters the loop and starts the first run of the step
ralphStarts ==
  /\ ralphRuns
  /\ loop.phase = ""
  /\ loop' = [loop EXCEPT !.phase = "step", !.runs = 1]
  /\ UNCHANGED <<child, childEnd>>
  /\ ralphFrame

\* the step ends, with status 0 or not: the script has no "set -e" and does not
\* look at the status; it prints its line and sleeps
ralphStepEnds(ok) ==
  /\ ralphRuns
  /\ loop.phase = "step"
  /\ loop' = [loop EXCEPT !.phase = "sleep", !.last = IF ok THEN "ok" ELSE "failed",
                          !.delay = nextDelay(loop.delay)]
  /\ UNCHANGED <<child, childEnd>>
  /\ ralphFrame

\* the sleep is over: the loop condition, then the next run of the step
ralphWakes ==
  /\ ralphRuns
  /\ loop.phase = "sleep"
  /\ IF loopContinues(loop.runs)
     THEN /\ loop' = [loop EXCEPT !.phase = "step",
                                  !.runs = IF loop.runs < MaxRuns THEN loop.runs + 1 ELSE loop.runs]
          /\ UNCHANGED <<child, childEnd>>
     ELSE /\ loop' = [loop EXCEPT !.phase = "done"]
          /\ child' = "exited"
          /\ childEnd' = [kind |-> "ok", signal |-> "", by |-> ""]
  /\ ralphFrame

RalphStepEnds == \E ok \in BOOLEAN : ralphStepEnds(ok)

\* one continuous sync per behaviour: the loop belongs to its subprocess
ForeverBegin == loop = NoLoop /\ syncBegin("syncForever", FALSE)

ForeverNext ==
  \/ ForeverBegin
  \/ syncAccess
  \/ ralphStarts
  \/ RalphStepEnds
  \/ ralphWakes
  \/ Signal
  \/ childDies
  \/ childIgnores
  \/ ChildKilled
  \/ ChildExits
  \/ syncResume

ForeverInit ==
  /\ doc = NullConfig
  /\ scripts \in SUBSET ScriptNames
  /\ InitWith({NoFile, yamlStringify(MinimalConfig)})

\* bash runs the loop on, and every claude session comes to an end
SpecForever ==
  /\ ForeverInit
  /\ [][ForeverNext]_vars
  /\ WF_vars(ralphStarts)
  /\ WF_vars(RalphStepEnds)
  /\ WF_vars(ralphWakes)

(***************************************************************************)
(* Properties of the loop of ralph.sh.                                     *)
(***************************************************************************)
\* the subprocess was ended from outside, or bash itself failed
Cancelled == child = "exited" /\ childEnd.kind \in {"signal", "failed"}

\* C25: in continuous sync the delay after a run of the step is the same
\* every time; every end of a run, with status 0 or not, leads to another run
\* unless the subprocess is cancelled; and when the subprocess is never
\* cancelled the step is started again and again without end.
C25_RestartsForever ==
  /\ [](loop.phase = "sleep" => loop.delay = RalphDelay)
  /\ [](loop.phase \in {"", "step", "sleep"})
  /\ (ralphRuns /\ loop.phase = "sleep") ~> (loop.phase = "step" \/ Cancelled)
  /\ (<>[]ralphRuns) => []<><<ralphWakes>>_vars

\* a run that failed was followed by another run, past the counted ones
C25_Witness ==
  /\ ralphRuns
  /\ loop.phase = "step"
  /\ loop.last = "failed"
  /\ loop.runs >= MaxRuns
  /\ loop.delay = RalphDelay

(***************************************************************************)
(* saveConfig step by step, with a reader at work.  fs.writeFile opens the *)
(* file for writing, which empties it, and then writes the text; a long    *)
(* text goes out in more than one write.                                    *)
(***************************************************************************)
\* the file right after it was opened for writing: yaml.parse("") is null
Truncated == [kind |-> "empty", entries |-> {}]

\* the file after the first write of two: the text up to the end of its
\* first line
firstChunk(content) ==
  [kind |-> "yaml", entries |-> {e \in content.entries : e[1] = "source_repo"}]

RaceConfigs == {MinimalConfig, EditedConfig}
RaceArgs == {"", "src"}

raceFrame ==
  UNCHANGED <<siteVars, exitCode, repeated, preflightVars, syncVars, pushVars, pullVars>>

\* saveConfig(config, sourceRepo) up to the call of fs.writeFile
saveBegin(config, sourceRepo) ==
  /\ pc = "idle"
  /\ pc' = "save-open"
  /\ cmd' = Command("saveConfig", sourceRepo, <<>>)
  /\ doc' = config
  /\ savedDir' = baseDir(sourceRepo)
  /\ dirs' = saveConfigDirs(dirs, sourceRepo)
  /\ pre' = files
  /\ writes' = 0
  /\ out' = ""
  /\ loaded' = [ok |-> FALSE, config |-> NullConfig]
  /\ UNCHANGED files
  /\ raceFrame

\* fs.writeFile opens the file with flag "w"
saveTruncate ==
  /\ pc = "save-open"
  /\ pc' = "save-write"
  /\ files' = [files EXCEPT ![savedDir] = Truncated]
  /\ UNCHANGED <<cmd, doc, savedDir, dirs, pre, writes, out, loaded>>
  /\ raceFrame

\* the first write puts only part of the text into the file
saveChunk ==
  /\ pc = "save-write"
  /\ pc' = "save-rest"
  /\ files' = [files EXCEPT ![savedDir] = firstChunk(yamlStringify(doc))]
  /\ UNCHANGED <<cmd, doc, savedDir, dirs, pre, writes, out, loaded>>
  /\ raceFrame

\* the text is in the file, whole; saveConfig returns
saveFinish ==
  /\ pc \in {"save-write", "save-rest"}
  /\ pc' = "idle"
  /\ files' = saveConfigFiles(files, doc, cmd.action)
  /\ writes' = 1
  /\ UNCHANGED <<cmd, doc, savedDir, dirs, pre, out, loaded>>
  /\ raceFrame

\* another process calls loadConfig for the same directory while the save is
\* under way
loadDuringSave ==
  /\ pc \in {"save-open", "save-write", "save-rest"}
  /\ loaded' = loadConfig(files, dirs, cmd.action)
  /\ out' = "loaded-during-save"
  /\ UNCHANGED <<pc, cmd, doc, savedDir, files, dirs, pre, writes>>
  /\ raceFrame

SaveBegin == \E config \in RaceConfigs, sourceRepo \in RaceArgs : saveBegin(config, sourceRepo)

RaceNext == SaveBegin \/ saveTruncate \/ saveChunk \/ saveFinish \/ loadDuringSave

RaceInit ==
  /\ doc = NullConfig
  /\ scripts = {}
  /\ InitWith({NoFile, yamlStringify(MinimalConfig), yamlStringify(EditedConfig)})

SpecRace == RaceInit /\ [][RaceNext]_vars

\* C23: a load that overlaps a save of a document that was there returns the
\* whole document of before the save or the whole new one, never "absent" and
\* never a part of a document.
C23_LoadSeesWhole ==
  (out = "loaded-during-save" /\ pre[savedDir].kind = "yaml") =>
    /\ loaded.ok
    /\ loaded.config \in {yamlParse(pre[savedDir]), yamlParse(yamlStringify(doc))}

====
